---- MODULE Spec2Model ----
\* Model of RLMSimulator (src/atris/research/rlm_simulation.py): the REPL
\* session state, the execution sandbox, the code-block extractor, the
\* termination detector and the orchestration loop of run().
\*
\* Text is a sequence of lexemes (strings).  A lexeme is atomic: markers,
\* fences, words, whole source lines of a code block, and the fixed pieces
\* of the two prompt templates.  The regular expressions of the source are
\* modelled by what they match on such sequences.
EXTENDS FiniteSets, Integers, Sequences, TLC

\* ---------------------------------------------------------------- bounds
MaxIterations == 2      \* largest iteration budget given to the constructor
MaxParts == 2           \* fragments (marker, code block, text) per response

\* ------------------------------------------------------ program constants
RootOverhead == 100     \* len(current_prompt.split()) + 100
SubOverhead == 50       \* len(prompt.split()) + 50

\* ------------------------------------------------------------ Optional[str]
None == <<>>
Some(s) == <<s>>

\* ------------------------------------------------------------------ values
\* A Python value held in a binding: an int or a str, with the text str()
\* gives for it.
IntVal(n) == [kind |-> "int", text |-> <<ToString(n)>>]
StrVal(t) == [kind |-> "str", text |-> t]
str(v) == v.text

\* dict helpers
EmptyDict == [k \in {} |-> StrVal(<<>>)]
Put(d, k, v) == [n \in (DOMAIN d) \cup {k} |-> IF n = k THEN v ELSE d[n]]
Drop(d, k) == [n \in (DOMAIN d) \ {k} |-> d[n]]
Get(d, k, default) == IF k \in DOMAIN d THEN d[k] ELSE default
Update(d, e) == [n \in (DOMAIN d) \cup (DOMAIN e) |-> IF n \in DOMAIN e THEN e[n] ELSE d[n]]

\* ----------------------------------------------------------------- lexemes
FinalOpen == "FINAL("
FinalVarOpen == "FINAL_VAR("
ParenClose == ")"
\* [fence] stands for the three backquote characters of the source pattern
FenceOpen == "[fence]repl\n"
FenceClose == "[fence]"
Newline == "\n"
ErrorPrefix == "Error: "

Names == {"x", "y"}
WordLexemes == Names \cup {"a"}

SysHead == "You have access to a REPL environment with: - context: A string variable ("
SysMid == " chars) containing documents ... Write code to explore the context and answer: "
SysTail == " When ready, use FINAL(answer) or FINAL_VAR(variable_name) to return."
NextHead == "Previous REPL output: "
NextMid == " Continue exploring to answer: "
NextTail == " Use FINAL(answer) when ready."

\* str.split() word count of one lexeme.  The number that follows SysHead
\* forms one word with its last character, so SysHead counts 13 words.
Words(tok) ==
    CASE tok = Newline -> 0
      [] tok = SysHead -> 13
      [] tok = SysMid -> 23
      [] tok = SysTail -> 8
      [] tok = NextHead -> 3
      [] tok = NextMid -> 4
      [] tok = NextTail -> 4
      [] OTHER -> 1

RECURSIVE WordCount(_)
WordCount(s) == IF s = <<>> THEN 0 ELSE Words(Head(s)) + WordCount(Tail(s))

\* s contains t as a contiguous run of lexemes (Python: t in s)
Contains(s, t) ==
    \E i \in 0..(Len(s) - Len(t)) : SubSeq(s, i + 1, i + Len(t)) = t

\* first index >= i of a lexeme of S in r, 0 when there is none
RECURSIVE IndexFrom(_, _, _)
IndexFrom(r, i, S) ==
    IF i > Len(r) THEN 0
    ELSE IF r[i] \in S THEN i
    ELSE IndexFrom(r, i + 1, S)

\* ------------------------------------------------- simulated_llm (opaque)
\* The Agent Capability is an opaque text-in, text-out function: its root
\* responses are any concatenation of at most MaxParts fragments, its
\* sub-call responses any member of SubReplies.
AssignOne == "x = 1"
PrintX == "print(x)"
PrintContext == "print(context)"
SubQuery == "y = llm_query('q')"
DelX == "del x"
RebindContext == "context = 1"

\* the code blocks the agent may write: each is a sequence of source lines
BlockBodies ==
    { <<AssignOne>>,
      <<PrintContext>>,
      <<SubQuery, PrintX>>,
      <<RebindContext, DelX>> }

Literal(t) == <<FinalOpen>> \o t \o <<ParenClose>>
VarRef(n) == <<FinalVarOpen, n, ParenClose>>
Block(body) == <<FenceOpen>> \o body \o <<FenceClose>>

LiteralTexts == {<<>>, <<"a">>}

Parts ==
    { Literal(t) : t \in LiteralTexts }
    \cup { VarRef(n) : n \in {"x"} }
    \cup { Block(b) : b \in BlockBodies }

RECURSIVE ResponsesOf(_)
ResponsesOf(k) ==
    IF k = 0 THEN {<<>>}
    ELSE LET R == ResponsesOf(k - 1) IN R \cup { r \o p : r \in R, p \in Parts }

Responses == ResponsesOf(MaxParts)
SubReplies == {<<"s1">>, <<"s2">>}

DataBlobs == {<<"d1", "d2">>}
Queries == {<<"q1", "q2">>}

\* ------------------------------------------------------------- REPLState
REPLState(ctx) ==
    [context |-> ctx,
     variables |-> EmptyDict,
     output_buffer |-> <<>>,
     sub_call_count |-> 0,
     total_tokens_root |-> 0,
     total_tokens_sub |-> 0]

\* --------------------------------------------------------------- llm_query
\* m is the machine of one sandbox pass: the session state st, the
\* exec_globals g, the capture buffer out, the exception in flight (error),
\* the exception the except clause caught (caught) and the value ret
\* returned by the last call.
\* mutant of llm_query: the call is not counted
llm_query_NoCount(m, prompt, reply) ==
    [m EXCEPT !.st.total_tokens_sub = @ + WordCount(prompt) + SubOverhead,
              !.ret = reply]

llm_query(m, prompt, reply) ==
    [m EXCEPT !.st.sub_call_count = @ + 1,
              !.st.total_tokens_sub = @ + WordCount(prompt) + SubOverhead,
              !.ret = reply]

\* ------------------------------------------------------- execute_repl_code
SystemNames == {"context", "llm_query", "print", "re", "json", "__builtins__"}

NameError(n) == Some(<<"name '" \o n \o "' is not defined">>)

\* mutant of BuildGlobals: the saved variables are not put into exec_globals
BuildGlobals_Fresh(st) ==
    [k \in {"context"} |-> StrVal(st.context)]

\* exec_globals = {'context': ..., ...}; exec_globals.update(variables)
BuildGlobals(st) ==
    Update([k \in {"context"} |-> StrVal(st.context)], st.variables)

\* print(*args, file=output_capture): the text of the value and a newline
capture_print(m, v) == [m EXCEPT !.out = @ \o str(v) \o <<Newline>>]

\* one source line of a block, run by exec() in exec_globals
ExecLine(m, line, reply) ==
    CASE line = AssignOne -> [m EXCEPT !.g = Put(@, "x", IntVal(1))]
      [] line = RebindContext -> [m EXCEPT !.g = Put(@, "context", IntVal(1))]
      [] line = PrintContext -> capture_print(m, m.g["context"])
      [] line = PrintX ->
            IF "x" \in DOMAIN m.g THEN capture_print(m, m.g["x"])
            ELSE [m EXCEPT !.error = NameError("x")]
      [] line = DelX ->
            IF "x" \in DOMAIN m.g THEN [m EXCEPT !.g = Drop(@, "x")]
            ELSE [m EXCEPT !.error = NameError("x")]
      [] line = SubQuery ->
            LET r == llm_query(m, <<"q">>, reply)
            IN [r EXCEPT !.g = Put(@, "y", StrVal(r.ret))]
      [] OTHER -> [m EXCEPT !.error = Some(<<"invalid syntax">>)]

\* exec(code, exec_globals): lines run in order until one raises
RECURSIVE exec(_, _, _)
exec(m, code, reply) ==
    IF code = <<>> \/ m.error # None THEN m
    ELSE exec(ExecLine(m, Head(code), reply), Tail(code), reply)

\* mutant of SaveVariables: variables is replaced by the saved bindings
SaveVariables_Replace(variables, g) ==
    [k \in (DOMAIN g) \ SystemNames |-> g[k]]

\* mutant of SaveVariables: the system names are saved as well
SaveVariables_NoExclusion(variables, g) ==
    Update(variables, g)

\* mutant of SaveVariables: a name already in variables keeps its old value
SaveVariables_OnlyNew(variables, g) ==
    Update([k \in (DOMAIN g) \ SystemNames |-> g[k]], variables)

\* for k, v in exec_globals.items(): if k not in (...): variables[k] = v
SaveVariables(variables, g) ==
    Update(variables, [k \in (DOMAIN g) \ SystemNames |-> g[k]])

\* mutant of TryExec: the exception is not caught
TryExec_NoCatch(m, code, reply) ==
    LET r == exec(m, code, reply)
    IN IF r.error = None
       THEN [r EXCEPT !.st.variables = SaveVariables(@, r.g)]
       ELSE r

\* mutant of TryExec: a fault restores the session state the pass began with
TryExec_Rollback(m, code, reply) ==
    LET r == exec(m, code, reply)
    IN IF r.error = None
       THEN [r EXCEPT !.st.variables = SaveVariables(@, r.g)]
       ELSE [r EXCEPT !.st = m.st,
                      !.out = @ \o <<ErrorPrefix>> \o r.error[1],
                      !.caught = r.error,
                      !.error = None]

\* the try/except around exec and the save loop: except Exception as e
\* writes the error line to the capture buffer and the exception is handled
TryExec(m, code, reply) ==
    LET r == exec(m, code, reply)
    IN IF r.error = None
       THEN [r EXCEPT !.st.variables = SaveVariables(@, r.g)]
       ELSE [r EXCEPT !.out = @ \o <<ErrorPrefix>> \o r.error[1],
                      !.caught = r.error,
                      !.error = None]

\* mutant of execute_repl_code: the output is added to output_buffer
execute_repl_code_Append(st, code, reply) ==
    LET m0 == [st |-> st, g |-> BuildGlobals(st), out |-> <<>>,
               error |-> None, caught |-> None, ret |-> <<>>]
        r == TryExec(m0, code, reply)
    IN IF r.error # None THEN r
       ELSE [r EXCEPT !.st.output_buffer = @ \o r.out]

\* execute_repl_code(code): the machine at return; its out is the returned
\* output and st the session state it leaves.  An exception still in flight
\* after the try statement leaves the function before output_buffer is set.
execute_repl_code(st, code, reply) ==
    LET m0 == [st |-> st, g |-> BuildGlobals(st), out |-> <<>>,
               error |-> None, caught |-> None, ret |-> <<>>]
        r == TryExec(m0, code, reply)
    IN IF r.error # None THEN r
       ELSE [r EXCEPT !.st.output_buffer = r.out]

\* ----------------------------------------------------- extract_code_blocks
\* re.findall of fence-open, shortest text, three backquotes: the closing
\* backquotes may be those that start another fence-open lexeme
RECURSIVE ExtractFrom(_, _)
ExtractFrom(r, i) ==
    LET o == IndexFrom(r, i, {FenceOpen})
        c == IF o = 0 THEN 0 ELSE IndexFrom(r, o + 1, {FenceOpen, FenceClose})
    IN IF o = 0 \/ c = 0 THEN <<>>
       ELSE <<SubSeq(r, o + 1, c - 1)>> \o ExtractFrom(r, c + 1)

\* mutant of extract_code_blocks: the blocks come out last first
extract_code_blocks_Reversed(response) ==
    LET b == ExtractFrom(response, 1)
    IN [i \in 1..Len(b) |-> b[Len(b) + 1 - i]]

extract_code_blocks(response) == ExtractFrom(response, 1)

\* ------------------------------------------------------ check_final_answer
\* re.search(FINAL\((.*?)\), DOTALL): leftmost marker, shortest wrapped text
FinalMatch(response) ==
    LET f == IndexFrom(response, 1, {FinalOpen})
        c == IF f = 0 THEN 0 ELSE IndexFrom(response, f + 1, {ParenClose})
    IN IF f = 0 \/ c = 0 THEN None ELSE Some(SubSeq(response, f + 1, c - 1))

\* re.search(FINAL_VAR\((\w+)\)): leftmost marker wrapping one word
RECURSIVE VarMatchFrom(_, _)
VarMatchFrom(r, i) ==
    LET v == IndexFrom(r, i, {FinalVarOpen})
    IN IF v = 0 \/ v + 2 > Len(r) THEN None
       ELSE IF r[v + 1] \in WordLexemes /\ r[v + 2] = ParenClose THEN Some(r[v + 1])
       ELSE VarMatchFrom(r, v + 1)

VarMatch(response) == VarMatchFrom(response, 1)

\* mutant of NotFound: the placeholder does not name the variable
NotFound_Anonymous(var_name) == StrVal(<<"[Variable not found]">>)

NotFound(var_name) == StrVal(<<"[Variable ", var_name, " not found]">>)

\* mutant of check_final_answer: the variable-reference form is checked first
check_final_answer_VarFirst(response, variables) ==
    LET final_match == FinalMatch(response)
        var_match == VarMatch(response)
    IN IF var_match # None
       THEN Some(str(Get(variables, var_match[1], NotFound(var_match[1]))))
       ELSE IF final_match # None THEN Some(final_match[1])
       ELSE None

check_final_answer(response, variables) ==
    LET final_match == FinalMatch(response)
        var_match == VarMatch(response)
    IN IF final_match # None THEN Some(final_match[1])
       ELSE IF var_match # None
            THEN Some(str(Get(variables, var_match[1], NotFound(var_match[1]))))
       ELSE None

\* if final: a str is true when it is not empty
Truthy(final) == final # None /\ final[1] # <<>>

\* ------------------------------------------------------------------ prompts
\* mutant of SystemPrompt: the data itself is formatted into the prompt
SystemPrompt_WithData(context, query) ==
    <<SysHead>> \o context \o <<SysMid>> \o query \o <<SysTail>>

SystemPrompt(context, query) ==
    <<SysHead, ToString(Len(context)), SysMid>> \o query \o <<SysTail>>

\* mutant of NextPrompt: the REPL output is left out
NextPrompt_NoOutput(output_buffer, query) ==
    <<NextHead, NextMid>> \o query \o <<NextTail>>

NextPrompt(output_buffer, query) ==
    <<NextHead>> \o output_buffer \o <<NextMid>> \o query \o <<NextTail>>

\* ---------------------------------------------------------- RLMSimulator
VARIABLES
    pc,              \* "new": constructed; "loop": at the while test;
                     \* "exec": in the for loop over code_blocks; "done": returned;
                     \* "raised": run() left by an exception
    max_iterations,  \* self.max_iterations
    iteration,       \* self.iteration
    state,           \* self.state: None or the REPLState of the run
    query,           \* run's argument
    current_prompt,  \* run's local
    response,        \* run's local: the root response of this iteration
    final,           \* run's local: what check_final_answer returned
    code_blocks,     \* the blocks of this iteration not yet executed
    last_pass,       \* locals of the last execute_repl_code call of this
                     \* iteration: code, exec_globals as built and as left by
                     \* exec, the caught exception, output
    sent_prompt,     \* the prompt given to the last root simulated_llm call
    root_calls,      \* how many root simulated_llm calls were made
    marker_seen      \* some root response so far made the detector answer

vars == <<pc, max_iterations, iteration, state, query, current_prompt, response,
          final, code_blocks, last_pass, sent_prompt, root_calls, marker_seen>>

\* mutants of while_test: one pass too many, one pass too few
while_test_Inclusive(i, n) == i <= n
while_test_Short(i, n) == i + 1 < n

\* while self.iteration < self.max_iterations
while_test(i, n) == i < n

\* mutant of root_estimate: the estimate is assigned, not added
root_estimate_Assign(st, prompt) ==
    [st EXCEPT !.total_tokens_root = WordCount(prompt) + RootOverhead]

\* self.state.total_tokens_root += len(current_prompt.split()) + 100
root_estimate(st, prompt) ==
    [st EXCEPT !.total_tokens_root = @ + WordCount(prompt) + RootOverhead]

\* __init__(max_iterations)
Init ==
    /\ pc = "new"
    /\ max_iterations \in 1..MaxIterations
    /\ iteration = 0
    /\ state = None
    /\ query = <<>>
    /\ current_prompt = <<>>
    /\ response = <<>>
    /\ final = None
    /\ code_blocks = <<>>
    /\ last_pass = None
    /\ sent_prompt = <<>>
    /\ root_calls = 0
    /\ marker_seen = FALSE

\* run(context, query) up to the while loop
Run(context, q) ==
    /\ pc = "new"
    /\ state' = REPLState(context)
    /\ iteration' = 0
    /\ query' = q
    /\ current_prompt' = SystemPrompt(context, q)
    /\ pc' = "loop"
    /\ UNCHANGED <<max_iterations, response, final, code_blocks, last_pass,
                   sent_prompt, root_calls, marker_seen>>

\* one pass of the while body down to the extraction of the code blocks:
\* the root call answers resp
LoopIteration(resp) ==
    /\ pc = "loop"
    /\ while_test(iteration, max_iterations)
    /\ iteration' = iteration + 1
    /\ state' = root_estimate(state, current_prompt)
    /\ sent_prompt' = current_prompt
    /\ root_calls' = root_calls + 1
    /\ response' = resp
    /\ final' = check_final_answer(resp, state.variables)
    /\ marker_seen' = (marker_seen \/ final' # None)
    /\ IF Truthy(final')
       THEN pc' = "done" /\ code_blocks' = <<>>
       ELSE pc' = "exec" /\ code_blocks' = extract_code_blocks(resp)
    /\ UNCHANGED <<max_iterations, query, current_prompt, last_pass>>

\* for code in code_blocks: output = self.execute_repl_code(code)
ExecuteBlock(reply) ==
    /\ pc = "exec"
    /\ code_blocks # <<>>
    /\ \E r \in {execute_repl_code(state, Head(code_blocks), reply)} :
          /\ state' = r.st
          /\ last_pass' = Some([code |-> Head(code_blocks),
                                entry_globals |-> BuildGlobals(state),
                                exec_globals |-> r.g,
                                caught |-> r.caught, output |-> r.out])
          /\ pc' = IF r.error # None THEN "raised" ELSE "exec"
    /\ code_blocks' = Tail(code_blocks)
    /\ UNCHANGED <<max_iterations, iteration, query, current_prompt, response,
                   final, sent_prompt, root_calls, marker_seen>>

\* the next prompt is built; the locals of the body are dead from here on
BuildPrompt ==
    /\ pc = "exec"
    /\ code_blocks = <<>>
    /\ current_prompt' = NextPrompt(state.output_buffer, query)
    /\ response' = <<>>
    /\ sent_prompt' = <<>>
    /\ last_pass' = None
    /\ pc' = "loop"
    /\ UNCHANGED <<max_iterations, iteration, state, query, final, code_blocks,
                   root_calls, marker_seen>>

\* the while test fails: summary and return
LoopExit ==
    /\ pc = "loop"
    /\ ~while_test(iteration, max_iterations)
    /\ pc' = "done"
    /\ UNCHANGED <<max_iterations, iteration, state, query, current_prompt, response,
                   final, code_blocks, last_pass, sent_prompt, root_calls, marker_seen>>

\* the dict run() returns
RunResult ==
    [iterations |-> iteration,
     sub_calls |-> state.sub_call_count,
     root_tokens |-> state.total_tokens_root,
     sub_tokens |-> state.total_tokens_sub,
     variables |-> DOMAIN state.variables]

Next ==
    \/ \E context \in DataBlobs, q \in Queries : Run(context, q)
    \/ \E resp \in Responses : LoopIteration(resp)
    \/ \E reply \in SubReplies : ExecuteBlock(reply)
    \/ BuildPrompt
    \/ LoopExit

Spec == Init /\ [][Next]_vars

\* the interpreter runs the loop to its end: no step of run() waits
FairSpec == Spec /\ WF_vars(Next)

\* =================================================================== claims
Range(f) == { f[i] : i \in DOMAIN f }

\* the run is inside an iteration: the root call of this iteration was made
\* and its response is at hand
InIteration == pc \in {"exec", "done", "raised"} /\ sent_prompt # <<>>

\* C1 (as claimed): no prompt sent to the root agent in iteration 2 or later
\* contains the content of external_data.
C1_NoDataInLaterPrompts ==
    (InIteration /\ iteration >= 2) => ~Contains(sent_prompt, state.context)

\* C2: the first prompt sent to the root agent is made only of the two fixed
\* template pieces around the size of external_data, the query and the fixed
\* ending; it does not contain the content of external_data.
C2_FirstPromptMetadataOnly ==
    (InIteration /\ iteration = 1) =>
        /\ Range(sent_prompt) \subseteq
               {SysHead, SysMid, SysTail, ToString(Len(state.context))} \cup Range(query)
        /\ ~Contains(sent_prompt, state.context)

C2_Witness ==
    /\ InIteration
    /\ iteration = 1
    /\ Len(state.context) = 2
    /\ Contains(sent_prompt, query)

\* C3 (as claimed): whenever the detector yields an answer for the root
\* response of an iteration (any value other than absent), the run is DONE in
\* that iteration.
C3_AnswerEndsRun ==
    (InIteration /\ final # None) => pc = "done"

\* C4 (as claimed): after a pass that raised, every binding the block had
\* created or modified before the fault is in variables with that value.
C4_PartialBindingsKept ==
    (pc = "exec" /\ last_pass # None /\ last_pass[1].caught # None) =>
        \A k \in (DOMAIN last_pass[1].exec_globals) \ SystemNames :
            /\ k \in DOMAIN state.variables
            /\ state.variables[k] = last_pass[1].exec_globals[k]

\* C5 (as claimed): when the response holds no code block and no marker,
\* last_output is empty whatever earlier iterations produced.
C5_EmptyOutputWhenNoCode ==
    (pc = "exec" /\ final = None /\ extract_code_blocks(response) = <<>>) =>
        state.output_buffer = <<>>

\* C5 (amended): when the response holds no code block and no marker, the
\* iteration leaves variables and last_output exactly as they were before the
\* response, and the next prompt is built from that unchanged last_output and
\* the query.
C5_NoCodeKeepsState ==
    [][ /\ (pc = "loop" /\ pc' = "exec" /\ final' = None
                /\ extract_code_blocks(response') = <<>>) =>
              /\ state'.variables = state.variables
              /\ state'.output_buffer = state.output_buffer
        /\ (pc = "exec" /\ pc' = "loop" /\ final = None
                /\ extract_code_blocks(response) = <<>>) =>
              /\ state' = state
              /\ current_prompt' =
                     <<NextHead>> \o state.output_buffer \o <<NextMid>> \o query
                         \o <<NextTail>>
      ]_vars

C5_Witness ==
    /\ pc = "exec"
    /\ iteration = 2
    /\ final = None
    /\ response = <<>>
    /\ code_blocks = <<>>
    /\ state.output_buffer # <<>>

\* C6: a block that raises never ends the run: the exception is caught, the
\* captured output of the pass ends with the error indicator followed by the
\* fault description, that output is last_output, and the loop is still in
\* its body, from where it goes on.
C6_FaultContained ==
    /\ pc # "raised"
    /\ (pc # "new" /\ last_pass # None /\ last_pass[1].caught # None) =>
          LET out == last_pass[1].output
          IN /\ pc = "exec"
             /\ state.output_buffer = out
             /\ Len(out) >= 2
             /\ SubSeq(out, Len(out) - 1, Len(out)) =
                    <<ErrorPrefix>> \o last_pass[1].caught[1]

C6_Witness ==
    /\ pc = "exec"
    /\ last_pass # None
    /\ last_pass[1].caught # None
    /\ state.output_buffer = <<ErrorPrefix, "name 'x' is not defined">>
    /\ iteration < max_iterations

\* what is left of the run, as a pair ordered lexicographically: the loop
\* stages still ahead and the blocks of this iteration still to execute
Variant ==
    CASE pc = "new" -> <<2 * max_iterations + 2, 0>>
      [] pc = "loop" -> <<2 * (max_iterations - iteration) + 1, 0>>
      [] pc = "exec" -> <<2 * (max_iterations - iteration) + 2, Len(code_blocks)>>
      [] OTHER -> <<0, 0>>

LexLess(a, b) ==
    /\ a[1] >= 0 /\ a[2] >= 0
    /\ (a[1] < b[1] \/ (a[1] = b[1] /\ a[2] < b[2]))

\* some step of Next is enabled: ENABLED Next, split by the position of run()
\* (the empty response is one of Responses)
CanStep ==
    CASE pc = "new" -> \E c \in DataBlobs, q \in Queries : ENABLED Run(c, q)
      [] pc = "loop" -> ENABLED LoopExit \/ ENABLED LoopIteration(<<>>)
      [] pc = "exec" -> ENABLED BuildPrompt
                            \/ \E reply \in SubReplies : ENABLED ExecuteBlock(reply)
      [] OTHER -> FALSE

\* C7: every run reaches DONE, the iteration counter never exceeds the budget
\* and at most budget-many root agent calls are made.  Reaching DONE is
\* stated as: before DONE a step of the run is always possible, and every
\* step lowers the well-founded Variant; with the steps taken fairly (the
\* interpreter does not stop inside run) the run therefore ends in DONE.
C7_BoundedLiveness ==
    /\ [](iteration <= max_iterations /\ root_calls <= max_iterations)
    /\ [](pc # "done" => CanStep)
    /\ [][LexLess(Variant', Variant)]_vars

\* C7, direct form: under fair scheduling of the steps every run reaches DONE
C7_EventuallyDone == <>(pc = "done")

C7_Witness ==
    /\ pc = "done"
    /\ iteration = max_iterations
    /\ root_calls = max_iterations
    /\ max_iterations >= 2

\* C8: when no root response made the detector answer, the run ends with
\* iteration count exactly the budget and no answer.
C8_BudgetExhaustion ==
    /\ ~marker_seen => pc # "raised"
    /\ (pc = "done" /\ ~marker_seen) =>
          /\ iteration = max_iterations
          /\ RunResult.iterations = max_iterations
          /\ final = None

C8_Witness ==
    /\ pc = "done"
    /\ ~marker_seen
    /\ iteration >= 2
    /\ RunResult.iterations = max_iterations

\* C9: for a response that holds a literal marker and a variable-reference
\* marker, in either order, the detector returns the text between the first
\* literal marker and the first closing parenthesis after it.
C9_LiteralPrecedence ==
    (/\ InIteration
     /\ \E t \in LiteralTexts : Contains(response, Literal(t))
     /\ \E n \in WordLexemes : Contains(response, VarRef(n))) =>
        \E i, j \in DOMAIN response :
            /\ i < j
            /\ response[i] = FinalOpen
            /\ \A k \in 1..(i - 1) : response[k] # FinalOpen
            /\ response[j] = ParenClose
            /\ \A k \in (i + 1)..(j - 1) : response[k] # ParenClose
            /\ final = Some(SubSeq(response, i + 1, j - 1))

C9_Witness ==
    /\ pc = "done"
    /\ response = VarRef("x") \o Literal(<<"a">>)
    /\ "x" \in DOMAIN state.variables
    /\ final = Some(<<"a">>)

\* C10: for a response whose marker is FINAL_VAR(name): when name is not a
\* key of variables the detector returns the placeholder naming it and the
\* run is DONE with that answer; when it is a key, the text of the value is
\* returned.
C10_VarReference ==
    (/\ InIteration
     /\ FinalOpen \notin Range(response)
     /\ \E n \in WordLexemes : Contains(response, VarRef(n))) =>
        LET n == response[IndexFrom(response, 1, {FinalVarOpen}) + 1]
        IN IF n \in DOMAIN state.variables
           THEN final = Some(str(state.variables[n]))
           ELSE /\ final = Some(<<"[Variable ", n, " not found]">>)
                /\ pc = "done"

C10_Witness ==
    /\ pc = "done"
    /\ response = VarRef("x")
    /\ "x" \notin DOMAIN state.variables
    /\ final = Some(<<"[Variable ", "x", " not found]">>)

\* C11: sub_call_count and both token estimates are never negative and no
\* step of the run (loop step, sandbox pass with its sub-calls) lowers one.
C11_CountersMonotone ==
    /\ [](pc # "new" =>
             /\ state.sub_call_count >= 0
             /\ state.total_tokens_root >= 0
             /\ state.total_tokens_sub >= 0)
    /\ [][pc # "new" =>
             /\ state'.sub_call_count >= state.sub_call_count
             /\ state'.total_tokens_root >= state.total_tokens_root
             /\ state'.total_tokens_sub >= state.total_tokens_sub]_vars

C11_Witness ==
    /\ pc = "exec"
    /\ iteration = 2
    /\ state.sub_call_count = 2
    /\ state.total_tokens_sub = 2 * (1 + SubOverhead)
    /\ state.total_tokens_root > 2 * RootOverhead

\* C12: the key set of variables only grows: no step of the run, and no
\* sandbox pass (successful, faulting, or one whose code deletes a binding),
\* removes a key.
C12_KeysOnlyGrow ==
    [][pc # "new" => DOMAIN state.variables \subseteq DOMAIN state'.variables]_vars

C12_Witness ==
    /\ last_pass # None
    /\ last_pass[1].code = <<RebindContext, DelX>>
    /\ last_pass[1].caught = None
    /\ "x" \notin DOMAIN last_pass[1].exec_globals
    /\ "x" \in DOMAIN state.variables

\* C13: external_data is never changed by a step of the run, and a pass that
\* prints context prints the original data, whatever earlier passes have
\* bound context to.
C13_ExternalDataImmutable ==
    [][pc # "new" =>
         /\ state'.context = state.context
         /\ (last_pass' # last_pass /\ last_pass' # None
                /\ last_pass'[1].code = <<PrintContext>>)
               => /\ last_pass'[1].entry_globals["context"] = StrVal(state.context)
                  /\ last_pass'[1].output = state.context \o <<Newline>>]_vars

C13_Witness ==
    /\ last_pass # None
    /\ last_pass[1].code = <<RebindContext, DelX>>
    /\ last_pass[1].caught = None
    /\ last_pass[1].exec_globals["context"] = IntVal(1)
    /\ state.context \in DataBlobs
    /\ "context" \notin DOMAIN state.variables

C14_Reassigned ==
    /\ last_pass # None
    /\ last_pass[1].caught = None
    /\ "y" \in DOMAIN last_pass[1].entry_globals
    /\ last_pass[1].entry_globals["y"] # state.variables["y"]

\* C15: one sub-agent invocation adds 1 to sub_call_count and the estimate
\* of its prompt to sub_tokens_estimate, returns the sub-agent's response as
\* it is, and changes nothing else of the session or of the pass.
C15_SubCallFrame ==
    /\ pc = "exec" =>
          \A reply \in SubReplies :
              LET m0 == [st |-> state, g |-> BuildGlobals(state), out |-> <<>>,
                         error |-> None, caught |-> None, ret |-> <<>>]
                  m1 == llm_query(m0, <<"q">>, reply)
              IN /\ m1.st.sub_call_count = state.sub_call_count + 1
                 /\ m1.st.total_tokens_sub = state.total_tokens_sub + 1 + SubOverhead
                 /\ m1.ret = reply
                 /\ m1.st.total_tokens_root = state.total_tokens_root
                 /\ m1.st.variables = state.variables
                 /\ m1.st.output_buffer = state.output_buffer
                 /\ m1.st.context = state.context
                 /\ m1.g = m0.g /\ m1.out = m0.out /\ m1.error = None
    /\ (last_pass # None /\ last_pass[1].code = <<SubQuery, PrintX>>) =>
          /\ last_pass[1].exec_globals["y"] \in {StrVal(t) : t \in SubReplies}
          /\ state.sub_call_count >= 1
          /\ state.total_tokens_sub = state.sub_call_count * (1 + SubOverhead)

C15_Witness ==
    /\ last_pass # None
    /\ last_pass[1].code = <<SubQuery, PrintX>>
    /\ state.sub_call_count = 1
    /\ state.total_tokens_sub = 1 + SubOverhead
    /\ last_pass[1].exec_globals["y"] = StrVal(<<"s2">>)
    /\ state.variables = EmptyDict

\* a step that runs one block through the sandbox
PassStep == pc = "exec" /\ code_blocks' # code_blocks

\* the positions of the fence-open lexemes of a response and the text between
\* one of them and the next fence lexeme
FenceOpens(r) == {i \in DOMAIN r : r[i] = FenceOpen}

BlockAt(r, i) ==
    LET c == CHOOSE j \in (i + 1)..Len(r) :
                 /\ r[j] \in {FenceOpen, FenceClose}
                 /\ \A k \in (i + 1)..(j - 1) : r[k] \notin {FenceOpen, FenceClose}
    IN SubSeq(r, i + 1, c - 1)

\* C16 as stated: the blocks of one response run in order and share one
\* snapshot of variables for the whole iteration, so a block still waiting
\* starts from the bindings the block before it started from.
C16_OneSharedSnapshot ==
    (pc = "exec" /\ last_pass # None /\ code_blocks # <<>>) =>
        BuildGlobals(state) = last_pass[1].entry_globals

\* C16 as amended: the blocks of one response are run in the order they
\* stand in the response, and each is a pass of its own whose bindings are
\* built from the original data and from variables as they are when that
\* pass starts.
C16_OrderedFreshPasses ==
    [][pc # "new" =>
         /\ (pc = "loop" /\ pc' = "exec") =>
               /\ Len(code_blocks') = Cardinality(FenceOpens(response'))
               /\ \A i \in FenceOpens(response') :
                      code_blocks'[Cardinality({j \in FenceOpens(response') : j <= i})]
                         = BlockAt(response', i)
         /\ PassStep =>
               /\ last_pass' # None
               /\ last_pass'[1].code = Head(code_blocks)
               /\ code_blocks' = Tail(code_blocks)
               /\ DOMAIN last_pass'[1].entry_globals
                     = {"context"} \cup DOMAIN state.variables
               /\ \A k \in DOMAIN state.variables :
                      last_pass'[1].entry_globals[k] = state.variables[k]
               /\ "context" \notin DOMAIN state.variables =>
                      last_pass'[1].entry_globals["context"] = StrVal(state.context)]_vars

C16_Witness ==
    /\ pc = "exec"
    /\ iteration = 1
    /\ response = Block(<<AssignOne>>) \o Block(<<SubQuery, PrintX>>)
    /\ code_blocks = <<>>
    /\ last_pass # None
    /\ last_pass[1].code = <<SubQuery, PrintX>>
    /\ last_pass[1].caught = None
    /\ "x" \in DOMAIN last_pass[1].entry_globals

\* C17: when the detector finds an answer in a response, no block of that
\* response is executed.
C17_AnswerBeforeExecution ==
    (InIteration /\ final # None) => last_pass = None

\* C18: last_output is empty when the run starts, every executed block sets
\* it to that block's captured output, fault or not, no other step changes
\* it, and the next prompt is made of exactly that value and the query.
C18_LastOutputIsLastPass ==
    [][/\ (pc = "new" /\ pc' # "new") => state'.output_buffer = <<>>
       /\ pc # "new" =>
             /\ PassStep =>
                   /\ last_pass' # None
                   /\ state'.output_buffer = last_pass'[1].output
                   /\ last_pass'[1].caught # None =>
                         /\ Len(state'.output_buffer) >= 2
                         /\ state'.output_buffer[Len(state'.output_buffer) - 1]
                               = ErrorPrefix
             /\ ~PassStep => state'.output_buffer = state.output_buffer
             /\ (pc = "exec" /\ pc' = "loop") =>
                   current_prompt' = <<NextHead>> \o state.output_buffer
                                       \o <<NextMid>> \o query \o <<NextTail>>]_vars

C18_Witness ==
    /\ pc = "exec"
    /\ response = Block(<<PrintContext>>) \o Block(<<SubQuery, PrintX>>)
    /\ code_blocks = <<>>
    /\ last_pass # None
    /\ last_pass[1].caught # None
    /\ state.output_buffer = <<ErrorPrefix>> \o NameError("x")[1]

\* the sub-agent calls a block makes: in BlockBodies no line that stands
\* before a call can raise, so every call line of a block is executed
SubCallsIn(code) == Cardinality({i \in DOMAIN code : code[i] = SubQuery})

\* C19: a pass adds to sub_call_count the number of sub-agent calls its code
\* made, and to sub_tokens_estimate their estimates, also when the code
\* faults after the calls; no other step changes the two counters.
C19_SubCallsKept ==
    [][pc # "new" =>
         /\ PassStep =>
               /\ state'.sub_call_count =
                     state.sub_call_count + SubCallsIn(Head(code_blocks))
               /\ state'.total_tokens_sub =
                     state.total_tokens_sub
                        + SubCallsIn(Head(code_blocks)) * (1 + SubOverhead)
         /\ ~PassStep =>
               /\ state'.sub_call_count = state.sub_call_count
               /\ state'.total_tokens_sub = state.total_tokens_sub]_vars

C19_Witness ==
    /\ last_pass # None
    /\ last_pass[1].code = <<SubQuery, PrintX>>
    /\ last_pass[1].caught # None
    /\ state.sub_call_count = 2
    /\ state.total_tokens_sub = 2 * (1 + SubOverhead)
    /\ state.variables = EmptyDict

\* C20: every block of a response is run, each as its own pass, whether or
\* not an earlier one faulted, and a block sees the bindings that the
\* completed block before it left.
C20_BlocksAreSeparatePasses ==
    /\ [](pc = "exec" =>
             /\ \E n \in 0..Len(extract_code_blocks(response)) :
                   /\ code_blocks = SubSeq(extract_code_blocks(response), n + 1,
                                            Len(extract_code_blocks(response)))
                   /\ (n = 0) = (last_pass = None)
                   /\ n > 0 => last_pass[1].code = extract_code_blocks(response)[n])
    /\ [](code_blocks # <<>> => pc = "exec")
    /\ [][(PassStep /\ last_pass # None) =>
             /\ last_pass' # None
             /\ last_pass[1].caught = None =>
                   \A k \in (DOMAIN last_pass[1].exec_globals) \ SystemNames :
                       /\ k \in DOMAIN last_pass'[1].entry_globals
                       /\ last_pass'[1].entry_globals[k]
                             = last_pass[1].exec_globals[k]]_vars

C20_Witness ==
    /\ pc = "exec"
    /\ iteration = 1
    /\ response = Block(<<SubQuery, PrintX>>) \o Block(<<AssignOne>>)
    /\ code_blocks = <<>>
    /\ last_pass # None
    /\ last_pass[1].code = <<AssignOne>>
    /\ last_pass[1].caught = None
    /\ DOMAIN state.variables = {"x"}
    /\ state.sub_call_count = 1

====
